---- MODULE Spec2Model ----
(***************************************************************************)
(* Verification model of the relay's subscription identifiers              *)
(* (src/src/Subscription.h) and of its Prometheus metrics registry         *)
(* (src/unnamed/part_000).                                                 *)
(*                                                                         *)
(* Conventions.                                                            *)
(*  - A byte is a number in 0..255; a string is a sequence of bytes.       *)
(*  - A uint64_t / size_t is a tuple of four 16-bit limbs, least           *)
(*    significant first, so that 2^64 arithmetic is exact.                 *)
(*  - The C array buf[0..MAX_SUBID_SIZE] is the sequence buf with          *)
(*    buf[1] holding C's buf[0].                                           *)
(*  - Whether plain char is signed is implementation-defined; the model    *)
(*    keeps it as the build parameter charSigned.                          *)
(***************************************************************************)
EXTENDS Integers, Sequences, FiniteSets, TLC

VARIABLES
    charSigned,     \* build: plain char is a signed type
    maxSubIdSize,   \* build: the value of MAX_SUBID_SIZE
    val,            \* the std::string_view handed to SubId::SubId
    subIdState,     \* "none" | "ok" | "errLength" | "errChar"
    buf,            \* SubId::buf, the initialised prefix
    svOut,          \* result of SubId::sv(): [set, len: U64, data: bytes]
    strOut,         \* result of SubId::str(): [set, str: bytes]
    subs,           \* the Subscription objects that exist
    lastReq,        \* outcome of the latest Subscription construction attempt, and their number
    eventLog,       \* committed events: eventLog[q] is the kind of quadID q
    outbox,         \* EVENT messages of the open subscriptions: <<connId, subId, quadID>>
    guard,          \* initialisation guard of the function-local static
    instances,      \* PrometheusMetrics objects: id -> [table -> [label -> U64]]
    mutex,          \* id -> [table -> [readers |-> set of threads, writer |-> thread or 0]]
    pc,             \* per thread: position in getInstance / inc / getAll
    handle,         \* per thread: reference returned by its latest getInstance()
    call,           \* per thread: arguments of the running call
    result,         \* per thread: the map getAll is building
    base,           \* per thread: getAll values already returned when its getAll began
    doneMax,        \* per table and label: largest value a returned getAll reported
    issued,         \* per table and label: sum of n over the inc calls begun
    wrapped,        \* per table: labels whose counter passed 2^64
    calls           \* number of calls begun

subIdVars == <<charSigned, maxSubIdSize, val, subIdState, buf, svOut, strOut>>
subVars == <<subs, lastReq, eventLog, outbox>>
metricVars == <<guard, instances, mutex, pc, handle, call, result, base, doneMax,
                issued, wrapped, calls>>
vars == <<subIdVars, subVars, metricVars>>

NoValue == [set |-> FALSE]

NoReq == [set |-> FALSE, n |-> 0]

-----------------------------------------------------------------------------
(* 64-bit unsigned arithmetic on four 16-bit limbs *)

Limb == 2^16

U64(n) == <<n % Limb, (n \div Limb) % Limb, 0, 0>>

MAX_U64 == <<Limb - 1, Limb - 1, Limb - 1, Limb - 1>>

Add64(a, b) ==
    LET s1 == a[1] + b[1]
        s2 == a[2] + b[2] + (s1 \div Limb)
        s3 == a[3] + b[3] + (s2 \div Limb)
        s4 == a[4] + b[4] + (s3 \div Limb)
    IN  <<s1 % Limb, s2 % Limb, s3 % Limb, s4 % Limb>>

Carry64(a, b) ==
    LET s1 == a[1] + b[1]
        s2 == a[2] + b[2] + (s1 \div Limb)
        s3 == a[3] + b[3] + (s2 \div Limb)
        s4 == a[4] + b[4] + (s3 \div Limb)
    IN  s4 >= Limb

Lt64(a, b) ==
    \/ a[4] < b[4]
    \/ a[4] = b[4] /\ a[3] < b[3]
    \/ a[4] = b[4] /\ a[3] = b[3] /\ a[2] < b[2]
    \/ a[4] = b[4] /\ a[3] = b[3] /\ a[2] = b[2] /\ a[1] < b[1]

Le64(a, b) == a = b \/ Lt64(a, b)

-----------------------------------------------------------------------------
(* SubId *)

MAX_SUBID_SIZE == 64

MaxInputLen == 66

\* static_assert(MAX_SUBID_SIZE <= 255)
StaticAssertLimit == 255

\* the value of a plain char holding the byte b
CharValue(b, signed) == IF signed /\ b >= 128 THEN b - 256 ELSE b

\* (char)n for a size n: the byte that is stored
CharCast(n) == n % 256

\* (size_t)c for a char value c
SizeCast(c) == IF c >= 0 THEN U64(c) ELSE <<Limb + c, Limb - 1, Limb - 1, Limb - 1>>

\* badChar without its upper bound
badCharNoUpperBound(b, signed) ==
    LET c == CharValue(b, signed)
    IN  c < 32 \/ c = 92 \/ c = 34

badChar(b, signed) ==
    LET c == CharValue(b, signed)
    IN  c < 32 \/ c = 92 \/ c = 34 \/ c >= 127

LengthOk(v, max) == ~(Len(v) = 0 \/ Len(v) > max)

\* what the constructor leaves in buf
BufOf(v) == <<CharCast(Len(v))>> \o v

\* SubId::SubId: the outcome and the buffer
SubIdCtor(v, max, signed) ==
    IF ~LengthOk(v, max) THEN [state |-> "errLength", buf |-> <<>>]
    ELSE IF \E i \in 1..Len(v) : badChar(v[i], signed)
         THEN [state |-> "errChar", buf |-> <<>>]
         ELSE [state |-> "ok", buf |-> BufOf(v)]

\* sv() with the view starting at the length byte
SvFromLengthByte(b, signed) ==
    LET len == SizeCast(CharValue(b[1], signed))
    IN  [set |-> TRUE, len |-> len, data |-> SubSeq(b, 1, len[1])]

\* SubId::sv(): a view of len bytes starting at buf[1]; a view longer than
\* the array reaches outside it and only its in-array part is determined
SvOf(b, signed) ==
    LET len == SizeCast(CharValue(b[1], signed))
        inArray == IF Lt64(len, U64(Len(b))) THEN len[1] ELSE Len(b) - 1
    IN  [set |-> TRUE, len |-> len, data |-> SubSeq(b, 2, 1 + inArray)]

\* SubId::str(): a string copy of sv()
StrOf(b, signed) == [set |-> TRUE, str |-> SvOf(b, signed).data]

-----------------------------------------------------------------------------
(* Inputs of the SubId checks: strings of 'a' with at most one other byte *)

TestBytes == {0, 31, 32, 34, 92, 97, 126, 127, 128, 255}

Input(len, pos, b) == [i \in 1..len |-> IF i = pos THEN b ELSE 97]

Inputs == {Input(len, pos, b) : len \in 0..MaxInputLen, pos \in 0..MaxInputLen, b \in TestBytes}

\* the state of the parts of the program a specification leaves alone
SubIdIdle ==
    /\ charSigned \in BOOLEAN
    /\ maxSubIdSize = MAX_SUBID_SIZE
    /\ val = <<>>
    /\ subIdState = "none"
    /\ buf = <<>>
    /\ svOut = NoValue
    /\ strOut = NoValue

SubsIdle ==
    /\ subs = {}
    /\ lastReq = NoReq
    /\ eventLog = <<>>
    /\ outbox = {}

MetricsIdle ==
    /\ guard = "uninit"
    /\ instances = <<>>
    /\ mutex = <<>>
    /\ pc = <<>>
    /\ handle = <<>>
    /\ call = <<>>
    /\ result = <<>>
    /\ base = <<>>
    /\ doneMax = <<>>
    /\ issued = <<>>
    /\ wrapped = <<>>
    /\ calls = 0

\* SubId s(val)
Construct ==
    /\ subIdState = "none"
    /\ LET r == SubIdCtor(val, maxSubIdSize, charSigned)
       IN  /\ subIdState' = r.state
           /\ buf' = r.buf
    /\ UNCHANGED <<charSigned, maxSubIdSize, val, svOut, strOut, subVars, metricVars>>

\* s.sv()
Sv ==
    /\ subIdState = "ok"
    /\ ~svOut.set
    /\ svOut' = SvOf(buf, charSigned)
    /\ UNCHANGED <<charSigned, maxSubIdSize, val, subIdState, buf, strOut, subVars, metricVars>>

\* s.str()
Str ==
    /\ subIdState = "ok"
    /\ ~strOut.set
    /\ strOut' = StrOf(buf, charSigned)
    /\ UNCHANGED <<charSigned, maxSubIdSize, val, subIdState, buf, svOut, subVars, metricVars>>

Init ==
    /\ charSigned \in BOOLEAN
    /\ maxSubIdSize = MAX_SUBID_SIZE
    /\ val \in Inputs
    /\ subIdState = "none"
    /\ buf = <<>>
    /\ svOut = NoValue
    /\ strOut = NoValue
    /\ SubsIdle
    /\ MetricsIdle

Next == Construct \/ Sv \/ Str

Spec == Init /\ [][Next]_vars

\* builds with every MAX_SUBID_SIZE the static_assert admits
InitWidth ==
    /\ charSigned \in BOOLEAN
    /\ maxSubIdSize \in 1..StaticAssertLimit
    /\ \E len \in 0..(maxSubIdSize + 1) : val = Input(len, 0, 97)
    /\ subIdState = "none"
    /\ buf = <<>>
    /\ svOut = NoValue
    /\ strOut = NoValue
    /\ SubsIdle
    /\ MetricsIdle

NextWidth == Construct \/ Sv \/ Str

SpecWidth == InitWidth /\ [][NextWidth]_vars

-----------------------------------------------------------------------------
(* Subscription *)

MaxSubs == 1

MaxReqs == 2

MaxQuad == 2

Kinds == {1}

\* a NostrFilterGroup, reduced to the set of event kinds it matches
FilterGroups == {{1}, {2}}

ConnIds == {1, 2}

\* the subscription ids clients send in REQ
ReqIds ==
    {Input(0, 0, 97), Input(1, 0, 97), Input(1, 1, 34), Input(1, 1, 128),
     Input(MAX_SUBID_SIZE, 0, 97), Input(MAX_SUBID_SIZE + 1, 0, 97)}

\* a Subscription that keeps the id as a plain string, unvalidated
SubscriptionCtorUnchecked(connId_, subId_, filterGroup_, ipAddr_, max, signed) ==
    [ok |-> TRUE,
     sub |-> [connId |-> connId_,
              subId |-> BufOf(subId_),
              filterGroup |-> filterGroup_,
              ipAddr |-> ipAddr_,
              latestEventId |-> MAX_U64]]

\* a Subscription whose latestEventId starts at 0
SubscriptionCtorFromZero(connId_, subId_, filterGroup_, ipAddr_, max, signed) ==
    LET id == SubIdCtor(subId_, max, signed)
    IN  IF id.state # "ok"
        THEN [ok |-> FALSE, err |-> id.state]
        ELSE [ok |-> TRUE,
              sub |-> [connId |-> connId_,
                       subId |-> id.buf,
                       filterGroup |-> filterGroup_,
                       ipAddr |-> ipAddr_,
                       latestEventId |-> U64(0)]]

\* Subscription::Subscription: the member initialisers run in declaration
\* order; SubId's constructor may throw, and then no object exists
SubscriptionCtor(connId_, subId_, filterGroup_, ipAddr_, max, signed) ==
    LET id == SubIdCtor(subId_, max, signed)
    IN  IF id.state # "ok"
        THEN [ok |-> FALSE, err |-> id.state]
        ELSE [ok |-> TRUE,
              sub |-> [connId |-> connId_,
                       subId |-> id.buf,
                       filterGroup |-> filterGroup_,
                       ipAddr |-> ipAddr_,
                       latestEventId |-> MAX_U64]]

\* quadIDs of the log a subscription's scan snapshot holds
Snapshot(n) == 1..n

\* ReqWorker, scan complete: hand over with latestQuadID = max quadID at scan start
HandOver(sub) ==
    [sub EXCEPT !.latestEventId = U64(sub.snapMax),
                !.phase = "live",
                !.considered = Snapshot(sub.snapMax)]

\* ReqMonitor: the event q still has to be considered for the subscription
Pending(sub, q) == Lt64(sub.latestEventId, U64(q))

\* ReqMonitor, on (quadID, event): always update latestQuadID := quadID
Consider(sub, q) ==
    [sub EXCEPT !.latestEventId = U64(q),
                !.considered = @ \cup {q}]

Matches(sub, q) == eventLog[q] \in sub.filterGroup

SameHandle(sub, connId_, subId_) == sub.connId = connId_ /\ sub.subId = BufOf(subId_)

\* REQ: construct the Subscription; a subscription of the same connection
\* and id is closed first (its messages leave the outbox);
\* over the cap the new one is rejected with a notice
Req(connId_, subId_, filterGroup_) ==
    /\ lastReq.n < MaxReqs
    /\ LET r == SubscriptionCtor(connId_, subId_, filterGroup_, <<>>, maxSubIdSize, charSigned)
           kept == {sub \in subs : ~SameHandle(sub, connId_, subId_)}
       IN  IF ~r.ok
           THEN /\ subs' = subs
                /\ lastReq' = [set |-> TRUE, n |-> lastReq.n + 1, val |-> subId_, ok |-> FALSE, err |-> r.err]
           ELSE IF Cardinality(kept) >= MaxSubs
           THEN /\ subs' = kept
                /\ lastReq' = [set |-> TRUE, n |-> lastReq.n + 1, val |-> subId_, ok |-> FALSE, err |-> "cap"]
           ELSE /\ subs' = kept \cup {[connId |-> r.sub.connId,
                                       subId |-> r.sub.subId,
                                       filterGroup |-> r.sub.filterGroup,
                                       ipAddr |-> r.sub.ipAddr,
                                       latestEventId |-> r.sub.latestEventId,
                                       phase |-> "scanning",
                                       snapMax |-> Len(eventLog),
                                       considered |-> {}]}
                /\ lastReq' = [set |-> TRUE, n |-> lastReq.n + 1, val |-> subId_, ok |-> TRUE, err |-> "none"]
    /\ outbox' = {m \in outbox : ~(m[1] = connId_ /\ m[2] = BufOf(subId_))}
    /\ UNCHANGED <<subIdVars, eventLog, metricVars>>

\* the Writer commits an event and assigns it the next quadID
Commit(kind) ==
    /\ Len(eventLog) < MaxQuad
    /\ eventLog' = Append(eventLog, kind)
    /\ UNCHANGED <<subIdVars, subs, lastReq, outbox, metricVars>>

\* the scan of a subscription completes: matching snapshot events are sent,
\* then EOSE, and the subscription goes to the ReqMonitor
ScanDone(sub) ==
    /\ sub.phase = "scanning"
    /\ subs' = (subs \ {sub}) \cup {HandOver(sub)}
    /\ outbox' = outbox \cup {<<sub.connId, sub.subId, q>> :
                                 q \in {x \in Snapshot(sub.snapMax) : Matches(sub, x)}}
    /\ UNCHANGED <<subIdVars, lastReq, eventLog, metricVars>>

\* the ReqMonitor handles the next committed event for a live subscription
Monitor(sub) ==
    /\ sub.phase = "live"
    /\ \E q \in 1..Len(eventLog) :
        /\ Pending(sub, q)
        /\ \A x \in 1..(q - 1) : ~Pending(sub, x)
        /\ subs' = (subs \ {sub}) \cup {Consider(sub, q)}
        /\ outbox' = IF Matches(sub, q)
                     THEN outbox \cup {<<sub.connId, sub.subId, q>>}
                     ELSE outbox
    /\ UNCHANGED <<subIdVars, lastReq, eventLog, metricVars>>

InitSub ==
    /\ SubIdIdle
    /\ SubsIdle
    /\ MetricsIdle

NextSub ==
    \/ \E c \in ConnIds, s \in ReqIds, fg \in FilterGroups : Req(c, s, fg)
    \/ \E k \in Kinds : Commit(k)
    \/ \E sub \in subs : ScanDone(sub)
    \/ \E sub \in subs : Monitor(sub)

SpecSub == InitSub /\ [][NextSub]_vars

-----------------------------------------------------------------------------
(* PrometheusMetrics *)

MaxCalls == 3

Threads == {1, 2}

Tables == {"nostrClientMessages", "nostrRelayMessages", "nostrEventsByKind"}

\* labels in std::map key order
LabelOrder == <<"EVENT", "REQ">>

Labels == {LabelOrder[i] : i \in DOMAIN LabelOrder}

Rank(l) == CHOOSE i \in DOMAIN LabelOrder : LabelOrder[i] = l

Amounts == {U64(1), MAX_U64}

EmptyMap == <<>>

NoCall == [op |-> "none"]

\* Counter::inc: value.fetch_add(n)
CounterInc(v, n) == Add64(v, n)

\* Counter::get: value.load()
CounterGet(v) == v

\* counters.emplace(label, n): an existing counter is left as it is
MapEmplace(m, l, n) ==
    IF l \in DOMAIN m THEN m ELSE m @@ (l :> n)

\* counters.insert_or_assign(label, n): an existing counter is overwritten
MapAssign(m, l, n) ==
    IF l \in DOMAIN m THEN [m EXCEPT ![l] = n] ELSE m @@ (l :> n)

\* counters[label].inc(n): operator[] value-initialises a missing counter
MapIndexInc(m, l, n) ==
    IF l \in DOMAIN m
    THEN [m EXCEPT ![l] = CounterInc(@, n)]
    ELSE m @@ (l :> CounterInc(U64(0), n))

\* a fresh PrometheusMetrics: three empty LabeledCounters
NewInstance == [tb \in Tables |-> EmptyMap]

NewMutexes == [tb \in Tables |-> [readers |-> {}, writer |-> 0]]

\* the function-local static is initialised by the first caller only
\* (a guard that is entered while another thread is initialising)
GuardEnterUnsynchronised(g) == g # "done"

GuardEnter(g) == g = "uninit"

\* std::shared_lock: shared ownership, excluded by a writer
CanLockShared(m) == m.writer = 0

\* a unique_lock that does not wait for the readers
CanLockUniqueIgnoringReaders(m) == m.writer = 0

\* std::unique_lock: exclusive ownership
CanLockUnique(m) == m.writer = 0 /\ m.readers = {}

\* the LabeledCounter a thread's call works on
MapOf(t) == instances[handle[t]][call[t].table]

MutexOf(t) == mutex[handle[t]][call[t].table]

\* the element the range-for of getAll visits next, 0 at end()
NextRank(m, res) ==
    LET todo == {Rank(l) : l \in {x \in DOMAIN m : \A y \in DOMAIN res : Rank(y) < Rank(x)}}
    IN  IF todo = {} THEN 0 ELSE CHOOSE i \in todo : \A j \in todo : i <= j

EntryPc(c) == IF c.op = "inc" THEN "incLockShared" ELSE "gaLockShared"

\* getInstance() on entry: the first caller takes the guard of the static and
\* goes on to construct it; a caller arriving during the initialisation waits
\* at the guard; afterwards the static is returned
GetInstanceEnter(t, c) ==
    IF GuardEnter(guard)
    THEN /\ guard' = "initializing"
         /\ pc' = [pc EXCEPT ![t] = "construct"]
         /\ handle' = handle
    ELSE IF guard = "done"
    THEN /\ guard' = guard
         /\ pc' = [pc EXCEPT ![t] = EntryPc(c)]
         /\ handle' = [handle EXCEPT ![t] = Len(instances)]
    ELSE /\ guard' = guard
         /\ pc' = [pc EXCEPT ![t] = "getInstance"]
         /\ handle' = handle

\* a thread calls PROM_INC_*(label): getInstance().table.inc(label, n)
BeginInc(t, tb, l, n) ==
    /\ pc[t] = "idle"
    /\ calls < MaxCalls
    /\ calls' = calls + 1
    /\ call' = [call EXCEPT ![t] = [op |-> "inc", table |-> tb, label |-> l, n |-> n]]
    /\ issued' = [issued EXCEPT ![tb] =
                     IF l \in DOMAIN @ THEN [@ EXCEPT ![l] = Add64(@, n)] ELSE @ @@ (l :> n)]
    /\ GetInstanceEnter(t, call'[t])
    /\ UNCHANGED <<subIdVars, subVars, instances, mutex, result, base, doneMax, wrapped>>

\* a thread calls getInstance().table.getAll(), as render() does
BeginGetAll(t, tb) ==
    /\ pc[t] = "idle"
    /\ calls < MaxCalls
    /\ calls' = calls + 1
    /\ call' = [call EXCEPT ![t] = [op |-> "getAll", table |-> tb]]
    /\ base' = [base EXCEPT ![t] = doneMax[tb]]
    /\ GetInstanceEnter(t, call'[t])
    /\ UNCHANGED <<subIdVars, subVars, instances, mutex, result, doneMax, issued, wrapped>>

\* PrometheusMetrics(): the static is constructed and the guard released
GetInstanceConstruct(t) ==
    /\ pc[t] = "construct"
    /\ instances' = Append(instances, NewInstance)
    /\ mutex' = Append(mutex, NewMutexes)
    /\ guard' = "done"
    /\ handle' = [handle EXCEPT ![t] = Len(instances) + 1]
    /\ pc' = [pc EXCEPT ![t] = EntryPc(call[t])]
    /\ UNCHANGED <<subIdVars, subVars, call, result, base, doneMax, issued, wrapped, calls>>

\* getInstance() of a caller that waited at the guard
GetInstanceReturn(t) ==
    /\ pc[t] = "getInstance"
    /\ guard = "done"
    /\ handle' = [handle EXCEPT ![t] = Len(instances)]
    /\ pc' = [pc EXCEPT ![t] = EntryPc(call[t])]
    /\ UNCHANGED <<subIdVars, subVars, guard, instances, mutex, call, result, base,
                   doneMax, issued, wrapped, calls>>

SetMutex(t, m) == [mutex EXCEPT ![handle[t]][call[t].table] = m]

SetMap(t, m) == [instances EXCEPT ![handle[t]][call[t].table] = m]

\* inc: std::shared_lock lock(mutex)
IncLockShared(t) ==
    /\ pc[t] = "incLockShared"
    /\ CanLockShared(MutexOf(t))
    /\ mutex' = SetMutex(t, [MutexOf(t) EXCEPT !.readers = @ \cup {t}])
    /\ pc' = [pc EXCEPT ![t] = "incFind"]
    /\ UNCHANGED <<subIdVars, subVars, guard, instances, handle, call, result, base,
                   doneMax, issued, wrapped, calls>>

\* inc: counters.find(label); on a miss the shared lock is released
IncFind(t) ==
    /\ pc[t] = "incFind"
    /\ IF call[t].label \in DOMAIN MapOf(t)
       THEN /\ pc' = [pc EXCEPT ![t] = "incFetchAdd"]
            /\ mutex' = mutex
       ELSE /\ pc' = [pc EXCEPT ![t] = "incLockUnique"]
            /\ mutex' = SetMutex(t, [MutexOf(t) EXCEPT !.readers = @ \ {t}])
    /\ UNCHANGED <<subIdVars, subVars, guard, instances, handle, call, result, base,
                   doneMax, issued, wrapped, calls>>

\* inc: it->second.inc(n); return, releasing the shared lock
IncFetchAdd(t) ==
    /\ pc[t] = "incFetchAdd"
    /\ LET l == call[t].label
           old == MapOf(t)[l]
       IN  /\ instances' = SetMap(t, [MapOf(t) EXCEPT ![l] = CounterInc(old, call[t].n)])
           /\ wrapped' = IF Carry64(old, call[t].n)
                         THEN [wrapped EXCEPT ![call[t].table] = @ \cup {l}]
                         ELSE wrapped
    /\ mutex' = SetMutex(t, [MutexOf(t) EXCEPT !.readers = @ \ {t}])
    /\ pc' = [pc EXCEPT ![t] = "idle"]
    /\ call' = [call EXCEPT ![t] = NoCall]
    /\ UNCHANGED <<subIdVars, subVars, guard, handle, result, base, doneMax, issued, calls>>

\* inc: std::unique_lock lock(mutex)
IncLockUnique(t) ==
    /\ pc[t] = "incLockUnique"
    /\ CanLockUnique(MutexOf(t))
    /\ mutex' = SetMutex(t, [MutexOf(t) EXCEPT !.writer = t])
    /\ pc' = [pc EXCEPT ![t] = "incInsert"]
    /\ UNCHANGED <<subIdVars, subVars, guard, instances, handle, call, result, base,
                   doneMax, issued, wrapped, calls>>

\* inc: counters[label].inc(n); return, releasing the unique lock
IncInsert(t) ==
    /\ pc[t] = "incInsert"
    /\ LET l == call[t].label
           old == IF l \in DOMAIN MapOf(t) THEN MapOf(t)[l] ELSE U64(0)
       IN  /\ instances' = SetMap(t, MapIndexInc(MapOf(t), l, call[t].n))
           /\ wrapped' = IF Carry64(old, call[t].n)
                         THEN [wrapped EXCEPT ![call[t].table] = @ \cup {l}]
                         ELSE wrapped
    /\ mutex' = SetMutex(t, [MutexOf(t) EXCEPT !.writer = 0])
    /\ pc' = [pc EXCEPT ![t] = "idle"]
    /\ call' = [call EXCEPT ![t] = NoCall]
    /\ UNCHANGED <<subIdVars, subVars, guard, handle, result, base, doneMax, issued, calls>>

\* getAll: std::shared_lock lock(mutex); result is empty
GetAllLockShared(t) ==
    /\ pc[t] = "gaLockShared"
    /\ CanLockShared(MutexOf(t))
    /\ mutex' = SetMutex(t, [MutexOf(t) EXCEPT !.readers = @ \cup {t}])
    /\ result' = [result EXCEPT ![t] = EmptyMap]
    /\ pc' = [pc EXCEPT ![t] = "gaIterate"]
    /\ UNCHANGED <<subIdVars, subVars, guard, instances, handle, call, base,
                   doneMax, issued, wrapped, calls>>

\* getAll: one round of the range-for, result[label] = counter.get();
\* at end() the shared lock is released
GetAllIterate(t) ==
    /\ pc[t] = "gaIterate"
    /\ LET i == NextRank(MapOf(t), result[t])
       IN  IF i # 0
           THEN /\ result' = [result EXCEPT
                                 ![t] = @ @@ (LabelOrder[i] :> CounterGet(MapOf(t)[LabelOrder[i]]))]
                /\ pc' = pc
                /\ mutex' = mutex
           ELSE /\ result' = result
                /\ pc' = [pc EXCEPT ![t] = "gaReturn"]
                /\ mutex' = SetMutex(t, [MutexOf(t) EXCEPT !.readers = @ \ {t}])
    /\ UNCHANGED <<subIdVars, subVars, guard, instances, handle, call, base,
                   doneMax, issued, wrapped, calls>>

Max64(a, b) == IF Lt64(a, b) THEN b ELSE a

\* getAll returns its result to the caller
GetAllReturn(t) ==
    /\ pc[t] = "gaReturn"
    /\ doneMax' = [doneMax EXCEPT ![call[t].table] =
                      [l \in DOMAIN @ \cup DOMAIN result[t] |->
                          IF l \notin DOMAIN result[t] THEN @[l]
                          ELSE IF l \notin DOMAIN @ THEN result[t][l]
                          ELSE Max64(@[l], result[t][l])]]
    /\ pc' = [pc EXCEPT ![t] = "idle"]
    /\ call' = [call EXCEPT ![t] = NoCall]
    /\ result' = [result EXCEPT ![t] = EmptyMap]
    /\ base' = [base EXCEPT ![t] = EmptyMap]
    /\ UNCHANGED <<subIdVars, subVars, guard, instances, mutex, handle, issued, wrapped, calls>>

InitMetrics ==
    /\ SubIdIdle
    /\ charSigned
    /\ SubsIdle
    /\ guard = "uninit"
    /\ instances = <<>>
    /\ mutex = <<>>
    /\ pc = [t \in Threads |-> "idle"]
    /\ handle = [t \in Threads |-> 0]
    /\ call = [t \in Threads |-> NoCall]
    /\ result = [t \in Threads |-> EmptyMap]
    /\ base = [t \in Threads |-> EmptyMap]
    /\ doneMax = [tb \in Tables |-> EmptyMap]
    /\ issued = [tb \in Tables |-> EmptyMap]
    /\ wrapped = [tb \in Tables |-> {}]
    /\ calls = 0

NextMetrics ==
    \/ \E t \in Threads, tb \in Tables, l \in Labels, n \in Amounts : BeginInc(t, tb, l, n)
    \/ \E t \in Threads, tb \in Tables : BeginGetAll(t, tb)
    \/ \E t \in Threads : GetInstanceConstruct(t)
    \/ \E t \in Threads : GetInstanceReturn(t)
    \/ \E t \in Threads : IncLockShared(t)
    \/ \E t \in Threads : IncFind(t)
    \/ \E t \in Threads : IncFetchAdd(t)
    \/ \E t \in Threads : IncLockUnique(t)
    \/ \E t \in Threads : IncInsert(t)
    \/ \E t \in Threads : GetAllLockShared(t)
    \/ \E t \in Threads : GetAllIterate(t)
    \/ \E t \in Threads : GetAllReturn(t)

SpecMetrics == InitMetrics /\ [][NextMetrics]_vars

-----------------------------------------------------------------------------
(* Claims about SubId *)

Printable(b) == b >= 32 /\ b <= 126 /\ b # 34 /\ b # 92

\* C1: constructing a SubId succeeds if and only if the string is 1 to 64
\* bytes long and every byte is in 0x20..0x7E and is neither '"' nor '\';
\* every other string fails with an error.
C1_AcceptsExactlyValid ==
    subIdState # "none" =>
        /\ subIdState \in {"ok", "errLength", "errChar"}
        /\ subIdState = "ok" <=>
              /\ Len(val) >= 1
              /\ Len(val) <= 64
              /\ \A i \in 1..Len(val) : Printable(val[i])

C1_Witness ==
    /\ subIdState = "errChar"
    /\ Len(val) = 64
    /\ val[64] = 128

\* C2: for every accepted string, up to the maximum length of 64 bytes,
\* sv() and str() return exactly the input: same length, same bytes.
C2_RoundTrip ==
    /\ svOut.set => svOut.len = U64(Len(val)) /\ svOut.data = val
    /\ strOut.set => strOut.str = val

C2_Witness ==
    /\ Len(val) = 64
    /\ svOut.set
    /\ strOut.set

\* C7: for any MAX_SUBID_SIZE up to 255 and any accepted id of length
\* L <= MAX_SUBID_SIZE, the length stored in buf[0] is read back by sv()
\* as exactly L, including for L in 128..255.
C7_LengthPrefixLossless ==
    svOut.set => svOut.len = U64(Len(val))

-----------------------------------------------------------------------------
(* Claims about Subscription *)

\* C3: a subscription id that is empty or oversize never yields a
\* subscription: construction fails with the SubId error before any
\* Subscription object exists, whatever the connId and filter group.
C3_NoSubscriptionWithInvalidId ==
    /\ \A sub \in subs :
        /\ Len(sub.subId) - 1 >= 1
        /\ Len(sub.subId) - 1 <= 64
        /\ sub.subId[1] = Len(sub.subId) - 1
        /\ \A i \in 2..Len(sub.subId) : Printable(sub.subId[i])
    /\ (lastReq.set /\ (Len(lastReq.val) = 0 \/ Len(lastReq.val) > 64)) =>
          /\ ~lastReq.ok
          /\ lastReq.err = "errLength"
          /\ \A sub \in subs : sub.subId # BufOf(lastReq.val)

C3_Witness ==
    /\ lastReq.set
    /\ Len(lastReq.val) = 65
    /\ ~lastReq.ok
    /\ subs # {}

HighestConsidered(sub) ==
    /\ \A q \in sub.considered : Le64(U64(q), sub.latestEventId)
    /\ sub.considered # {} => \E q \in sub.considered : U64(q) = sub.latestEventId
    /\ \A q \in 1..MaxQuad : (q \notin sub.considered) <=> Lt64(sub.latestEventId, U64(q))

\* C5 as claimed: in every state from construction onward latestEventId is
\* the highest quadID whose delivery has been considered, and an event Q
\* still has to be considered exactly when latestEventId < Q.
C5_LatestIsHighestConsidered ==
    \A sub \in subs : HighestConsidered(sub)

\* C5 as amended: a Subscription is constructed with latestEventId = MAX_U64,
\* for which latestEventId < Q holds for no Q although no event has been
\* considered yet; from the hand-over to the ReqMonitor onward latestEventId
\* is the highest quadID considered and Q is pending exactly when
\* latestEventId < Q.
C5_LatestAfterHandOver ==
    \A sub \in subs :
        /\ sub.phase = "scanning" =>
              /\ sub.latestEventId = MAX_U64
              /\ sub.considered = {}
              /\ \A q \in 1..MaxQuad : ~Pending(sub, q)
        /\ sub.phase = "live" => HighestConsidered(sub)

C5_Witness ==
    \E sub \in subs :
        /\ sub.phase = "live"
        /\ sub.snapMax = 1
        /\ sub.considered = 1..MaxQuad
        /\ sub.latestEventId = U64(MaxQuad)

-----------------------------------------------------------------------------
(* Claims about PrometheusMetrics *)

RECURSIVE InFlight(_, _, _)
\* the sum of n over the threads of ts whose inc(label, n) on table tb has
\* been called and has not yet been applied
InFlight(ts, tb, l) ==
    IF ts = {} THEN U64(0)
    ELSE LET t == CHOOSE x \in ts : TRUE
             rest == InFlight(ts \ {t}, tb, l)
         IN  IF call[t].op = "inc" /\ call[t].table = tb /\ call[t].label = l
             THEN Add64(rest, call[t].n)
             ELSE rest

ValueOf(m, l) == IF l \in DOMAIN m THEN m[l] ELSE U64(0)

Quiescent == \A t \in Threads : pc[t] = "idle"

\* C4: no update is lost: for each label the counter plus the increments
\* still in flight equals the sum (mod 2^64) of the n passed to inc for that
\* label, so once all calls have returned each label reports exactly that
\* sum, also when threads raced to create it, and no other label changed.
C4_NoLostUpdates ==
    \A i \in DOMAIN instances, tb \in Tables :
        /\ DOMAIN instances[i][tb] \subseteq DOMAIN issued[tb]
        /\ \A l \in DOMAIN issued[tb] :
              Add64(ValueOf(instances[i][tb], l), InFlight(Threads, tb, l)) = issued[tb][l]
        /\ Quiescent => DOMAIN instances[i][tb] = DOMAIN issued[tb]

C4_Witness ==
    \E t \in Threads, u \in Threads :
        /\ t # u
        /\ pc[t] = "idle"
        /\ pc[u] = "incInsert"
        /\ call[u].label \in DOMAIN MapOf(u)
        /\ MapOf(u)[call[u].label] = MAX_U64

\* C6: every call of getInstance(), from any thread and in any order,
\* concurrent first calls included, returns the same single instance; no
\* second instance comes to exist, so the three tables are shared.
C6_Singleton ==
    /\ Len(instances) <= 1
    /\ guard = "done" <=> Len(instances) = 1
    /\ \A t \in Threads : handle[t] # 0 => handle[t] = 1 /\ guard = "done"
    /\ \A t \in Threads : pc[t] \notin {"idle", "getInstance", "construct"} => handle[t] = 1

C6_Witness ==
    \E t \in Threads, u \in Threads :
        /\ t # u
        /\ calls = 2
        /\ handle[t] = 1 /\ pc[t] # "idle"
        /\ handle[u] = 1 /\ pc[u] # "idle"
        /\ call[t].table # call[u].table

C8_ResultsGrow ==
    \A t \in Threads :
        pc[t] \in {"gaIterate", "gaReturn"} =>
            /\ \A l \in DOMAIN result[t] \cap DOMAIN base[t] :
                  l \in wrapped[call[t].table] \/ Le64(base[t][l], result[t][l])
            /\ pc[t] = "gaReturn" => DOMAIN base[t] \subseteq DOMAIN result[t]

C8_NoDecrease ==
    \A i \in DOMAIN instances, tb \in Tables :
        \A l \in DOMAIN instances[i][tb] :
            /\ l \in DOMAIN instances'[i][tb]
            /\ l \in wrapped'[tb] \/ Le64(instances[i][tb][l], instances'[i][tb][l])

\* C8: counters are cumulative: every later getAll result contains every
\* label of an earlier getAll result with a value greater than or equal to
\* the earlier one (absent wrap-around at 2^64), and no operation removes a
\* label or decreases a counter.
C8_Cumulative == []C8_ResultsGrow /\ [][C8_NoDecrease]_vars

C8_Witness ==
    \E t \in Threads :
        /\ pc[t] = "gaReturn"
        /\ base[t] # EmptyMap
        /\ \E l \in DOMAIN base[t] : l \in DOMAIN result[t] /\ Le64(base[t][l], result[t][l])

SameCounter(t, u) ==
    /\ call[t].op # "none"
    /\ call[u].op # "none"
    /\ handle[t] = handle[u]
    /\ call[t].table = call[u].table

\* C9: the label map is never mutated while it is read: a thread inserting
\* a label under the exclusive lock excludes every other thread from the
\* lookup in inc and from the iteration in getAll on that map.
C9_InsertExcludesReaders ==
    \A t \in Threads, u \in Threads :
        (t # u /\ pc[t] = "incInsert" /\ SameCounter(t, u)) =>
            pc[u] \notin {"incFind", "incFetchAdd", "incInsert", "gaIterate"}

C9_Witness ==
    \E t \in Threads, u \in Threads :
        /\ t # u
        /\ pc[t] = "incInsert"
        /\ SameCounter(t, u)
        /\ pc[u] = "gaLockShared"

====
